---- MODULE Spec2Model ----
(***************************************************************************)
(* The STM32 CAN bootloader update driver (examples/stm32-fwupdate.rs) on  *)
(* top of the PCAN-Basic channel transport (pcan-basic/src/lib.rs).        *)
(*                                                                         *)
(* The driver is a sequential program: every action below is one call it   *)
(* makes (Bootloader::new, send, receive_ack, io::Read::read), taken at    *)
(* the program position `pc`.  The bus, the native driver and the input    *)
(* stream are the environment: what a call returns is chosen with \E.      *)
(*                                                                         *)
(* Spec is the update driver from Bootloader::new to go(), on a channel    *)
(* that is already open.  SpecChan is the channel transport itself, from   *)
(* Interface::init() to the drop of the Interface, under a client that     *)
(* makes the calls of its API in any order the borrow rules allow.         *)
(* SpecFrame is the frame codec: a frame is constructed from an            *)
(* identifier and a data slice, marked remote, and read back.              *)
(***************************************************************************)
EXTENDS Integers, Sequences, FiniteSets, TLC

---------------------------------------------------------------------------
(* Bounds of the model                                                     *)

\* filter groups an implementation of FilteredReceiver reports at most
MaxGroups == 2
\* reads of the input stream that return fewer bytes than the stream holds
\* and the buffer takes (short reads), at most, in one run of write()
MaxShortReads == 2
\* frames other nodes put on the bus while the channel is initialized
MaxArrivals == 3
\* calls the client makes on the Rx and the Tx that split() returned
MaxOps == 3
\* native reads and writes that report a status other than OK or queue-empty
MaxErrs == 1
\* bytes in the longest data slice a frame is constructed from
MaxDataLen == 9

---------------------------------------------------------------------------
(* Program constants                                                       *)

BOOTLOADER_BLOCK_LEN == 256
CHUNK_LEN == 8
ACK == 121                  \* 0x79
SYNC_ID == 121              \* 0x79
ERASE_ID == 67              \* 0x43
WRITE_ID == 49              \* 0x31
DATA_ID == 4                \* 0x04
GO_ID == 33                 \* 0x21
ERASE_ALL == 255            \* 0xFF
STD_ID_MAX == 2047          \* 0x7FF
FLASH_BASE_HI == 2048       \* 0x0800_0000 >> 16
PCAN_MESSAGE_STANDARD == 0
PCAN_MESSAGE_RTR == 1
PCAN_MESSAGE_EXTENDED == 2
ID_BITS == 11
EXT_ID_MAX == 536870911     \* 0x1FFF_FFFF

\* let rx_ids = [0x79, 0x43, 0x31, 0x21];
rx_ids == <<SYNC_ID, ERASE_ID, WRITE_ID, GO_ID>>

TargetIds == {rx_ids[k] : k \in 1..Len(rx_ids)}

---------------------------------------------------------------------------
(* 32-bit words.  A u32 is kept as its two 16-bit halves, so that every    *)
(* address up to 0xFFFF_FFFF is a value of the model.                      *)

U32(h, l) == [hi |-> h, lo |-> l]

\* checked u32 addition `a + n` (n a small natural): the wrapped sum and
\* whether the true sum left the 32-bit range
Add32(a, n) ==
    LET l == a.lo + n
        h == a.hi + (l \div 65536)
    IN  [val |-> U32(h % 65536, l % 65536), overflow |-> h > 65535]

\* faulty variant: the least significant byte first
to_le_bytes(a) == <<a.lo % 256, a.lo \div 256, a.hi % 256, a.hi \div 256>>

\* addr.to_be_bytes(), and (addr >> 24) as u8, (addr >> 16) as u8, ...
to_be_bytes(a) == <<a.hi \div 256, a.hi % 256, a.lo \div 256, a.lo % 256>>

RECURSIVE BitAnd(_, _, _)
BitAnd(a, b, bits) ==
    IF bits = 0 THEN 0
    ELSE 2 * BitAnd(a \div 2, b \div 2, bits - 1)
         + (IF (a % 2 = 1) /\ (b % 2 = 1) THEN 1 ELSE 0)

RECURSIVE BitOr(_, _, _)
BitOr(a, b, bits) ==
    IF bits = 0 THEN 0
    ELSE 2 * BitOr(a \div 2, b \div 2, bits - 1)
         + (IF (a % 2 = 1) \/ (b % 2 = 1) THEN 1 ELSE 0)

---------------------------------------------------------------------------
(* Frame codec: Frame(TPCANMsg)                                            *)

Zeros(n) == [k \in 1..n |-> 0]

\* the frame that stands for "no frame" in log entries and results
NoFrame == [ID |-> 0 - 1, MSGTYPE |-> 0, LEN |-> 0, DATA |-> Zeros(8)]

\* Frame::new_standard: Err(()) for id > 0x7FF or more than 8 data bytes
new_standard(id, bytes) ==
    IF id > STD_ID_MAX \/ Len(bytes) > 8
    THEN [ok |-> FALSE, frame |-> NoFrame]
    ELSE [ok |-> TRUE,
          frame |-> [ID |-> id, MSGTYPE |-> PCAN_MESSAGE_STANDARD,
                     LEN |-> Len(bytes),
                     DATA |-> bytes \o Zeros(8 - Len(bytes))]]

\* Frame::new_extended: Err(()) for id > 0x1FFF_FFFF or more than 8 data bytes
new_extended(id, bytes) ==
    IF id > EXT_ID_MAX \/ Len(bytes) > 8
    THEN [ok |-> FALSE, frame |-> NoFrame]
    ELSE [ok |-> TRUE,
          frame |-> [ID |-> id, MSGTYPE |-> PCAN_MESSAGE_EXTENDED,
                     LEN |-> Len(bytes),
                     DATA |-> bytes \o Zeros(8 - Len(bytes))]]

\* the pcan crate's Frame::new_standard and Frame::new_extended:
\* assert!(data.len() <= 8), and the identifier is stored as it comes
pcan_new(msgtype, id, bytes) ==
    IF Len(bytes) > 8
    THEN [ok |-> FALSE, panic |-> TRUE, frame |-> NoFrame]
    ELSE [ok |-> TRUE, panic |-> FALSE,
          frame |-> [ID |-> id, MSGTYPE |-> msgtype, LEN |-> Len(bytes),
                     DATA |-> bytes \o Zeros(8 - Len(bytes))]]

\* MSGTYPE | PCAN_MESSAGE_RTR
OrRtr(msgtype) ==
    IF (msgtype \div PCAN_MESSAGE_RTR) % 2 = 1 THEN msgtype
    ELSE msgtype + PCAN_MESSAGE_RTR

\* MSGTYPE & !PCAN_MESSAGE_RTR
AndNotRtr(msgtype) ==
    IF (msgtype \div PCAN_MESSAGE_RTR) % 2 = 1 THEN msgtype - PCAN_MESSAGE_RTR
    ELSE msgtype

\* Frame::with_rtr: assert!(dlc < 8), the RTR bit is set and LEN becomes dlc
with_rtr(msg, dlc) ==
    IF ~(dlc < 8)
    THEN [panic |-> TRUE, frame |-> msg]
    ELSE [panic |-> FALSE,
          frame |-> [msg EXCEPT !.MSGTYPE = OrRtr(@), !.LEN = dlc]]

\* the pcan crate's Frame::set_rtr: the RTR bit is set or cleared
set_rtr(msg, rtr) ==
    [msg EXCEPT !.MSGTYPE = IF rtr THEN OrRtr(@) ELSE AndNotRtr(@)]

\* Frame::id
id(msg) == msg.ID

\* faulty variant: the whole buffer is returned
data_padded(msg) == msg.DATA

\* Frame::data: &self.0.DATA[0..self.0.LEN]
data(msg) == SubSeq(msg.DATA, 1, msg.LEN)

\* Frame::dlc
dlc(msg) == msg.LEN

\* Frame::is_extended
is_extended(msg) == (msg.MSGTYPE \div PCAN_MESSAGE_EXTENDED) % 2 = 1

\* Frame::is_remote_frame
is_remote_frame(msg) == (msg.MSGTYPE \div PCAN_MESSAGE_RTR) % 2 = 1

---------------------------------------------------------------------------
(* Filters                                                                 *)

\* Filter::new_standard(id): an exact match on all 11 identifier bits
Filter_new_standard(fid) ==
    [accept_all |-> FALSE, is_extended |-> FALSE, id |-> fid, mask |-> STD_ID_MAX]

\* Filter::accept_all(): the wildcard
accept_all ==
    [accept_all |-> TRUE, is_extended |-> TRUE, id |-> 0, mask |-> 0]

\* Filter::with_mask
with_mask(filter, mask) == [filter EXCEPT !.mask = mask]

\* A frame passes a filter iff it agrees with the filter's identifier on
\* every set mask bit (new_standard's mask 0x7FF is the exact match).
Passes(filter, msg) ==
    \/ filter.accept_all
    \/ /\ filter.is_extended = is_extended(msg)
       /\ BitAnd(msg.ID, filter.mask, ID_BITS) = BitAnd(filter.id, filter.mask, ID_BITS)

---------------------------------------------------------------------------
(* The receiver's filter capability and its filter state                   *)

\* a FilterGroup as Bootloader::new reads it: num_filters() and mask().is_some()
GroupKinds ==
    { [num_filters |-> 1, mask |-> FALSE],
      [num_filters |-> 1, mask |-> TRUE],      \* the PCAN channel's one group
      [num_filters |-> 2, mask |-> TRUE] }

Capabilities ==
    UNION { [1..n -> GroupKinds] : n \in 0..MaxGroups }

RECURSIVE SumFilters(_)
SumFilters(gs) ==
    IF gs = <<>> THEN 0 ELSE Head(gs).num_filters + SumFilters(Tail(gs))

RECURSIVE AnyMask(_)
AnyMask(gs) ==
    IF gs = <<>> THEN FALSE ELSE Head(gs).mask \/ AnyMask(Tail(gs))

\* CAN_GetValue(PCAN_MESSAGE_FILTER): the device reports a custom filter
\* configuration once all the filter slots it has are configured (the PCAN
\* channel has one slot: it reports CUSTOM after the first acceptance filter)
GetFilterState(d) ==
    IF d.filters # <<>> /\ Len(d.filters) >= d.slots THEN "CUSTOM" ELSE d.state

\* faulty variant: the filter state is not read back before the write
add_filter_unchecked(d, filter) ==
    IF filter.accept_all
    THEN [ok |-> TRUE, dev |-> [d EXCEPT !.state = "OPEN", !.filters = <<>>]]
    ELSE [ok |-> TRUE, dev |-> [d EXCEPT !.state = "CLOSE", !.filters = Append(@, filter)]]

\* Rx::add_filter.  The device closes an open filter before it takes an
\* acceptance filter.
add_filter(d, filter) ==
    IF GetFilterState(d) = "CUSTOM"
    THEN [ok |-> FALSE, dev |-> d]
    ELSE IF filter.accept_all
    THEN [ok |-> TRUE, dev |-> [d EXCEPT !.state = "OPEN", !.filters = <<>>]]
    ELSE [ok |-> TRUE, dev |-> [d EXCEPT !.state = "CLOSE", !.filters = Append(@, filter)]]

\* faulty variant: the filter is opened
clear_filters_open(d) ==
    [d EXCEPT !.state = "OPEN", !.filters = <<>>]

\* Rx::clear_filters: PCAN_MESSAGE_FILTER := PCAN_FILTER_CLOSE
clear_filters(d) ==
    [d EXCEPT !.state = "CLOSE", !.filters = <<>>]

\* the frames the hardware filter lets into the receive queue
Admitted(d, msg) ==
    \/ d.state = "OPEN"
    \/ \E k \in 1..Len(d.filters) : Passes(d.filters[k], msg)

\* for &rx_id in &rx_ids { rx.add_filter(&new_standard(rx_id)).unwrap(); }
RECURSIVE AddList(_, _)
AddList(r, ids) ==
    IF ids = <<>> \/ ~r.ok THEN r
    ELSE AddList(add_filter(r.dev, Filter_new_standard(Head(ids))), Tail(ids))

\* let mut id = 0; for &rx_id in &rx_ids { id &= rx_id; }
RECURSIVE FoldAnd(_, _)
FoldAnd(acc, ids) ==
    IF ids = <<>> THEN acc ELSE FoldAnd(BitAnd(acc, Head(ids), ID_BITS), Tail(ids))

\* let mut mask = 0; for &rx_id in &rx_ids { mask |= rx_id; }
RECURSIVE FoldOr(_, _)
FoldOr(acc, ids) ==
    IF ids = <<>> THEN acc ELSE FoldOr(BitOr(acc, Head(ids), ID_BITS), Tail(ids))

CombinedFilter == with_mask(Filter_new_standard(FoldAnd(0, rx_ids)), FoldOr(0, rx_ids))

\* faulty variant: the masked filter is preferred to the list
NegotiateMaskFirst(num_filters, has_mask) ==
    IF has_mask THEN "mask"
    ELSE IF num_filters >= Len(rx_ids) THEN "list"
    ELSE "none"

\* the branch Bootloader::new takes
Negotiate(num_filters, has_mask) ==
    IF num_filters >= Len(rx_ids) THEN "list"
    ELSE IF has_mask THEN "mask"
    ELSE "none"

\* Bootloader::new: ok, or a panic (unwrap of an Err, or "Not enough CAN
\* filters are available.")
Bootloader_new(gs, d) ==
    LET branch == Negotiate(SumFilters(gs), AnyMask(gs))
        r == IF branch = "list" THEN AddList([ok |-> TRUE, dev |-> d], rx_ids)
             ELSE IF branch = "mask" THEN add_filter(d, CombinedFilter)
             ELSE [ok |-> FALSE, dev |-> d]
    IN  [ok |-> r.ok, dev |-> r.dev,
         panic |-> IF r.ok THEN "none"
                   ELSE IF branch = "none" THEN "not_enough_filters"
                   ELSE "unwrap"]

---------------------------------------------------------------------------
(* The input stream and the bus                                            *)

\* the firmware image: byte p of the file
ImageByte(p) == (7 * p + 3) % 251

ImageLens == {0, 9, 300}

\* sizes a short read may return
ShortReads == {100}

StartAddrs == { U32(FLASH_BASE_HI, 0),       \* 0x0800_0000, as main passes
                U32(65535, 65280) }          \* 0xFFFF_FF00

BusIds == TargetIds \cup {DATA_ID, 128, 123}

BusPayloads == { <<>>, <<ACK>>, <<31>>, <<ACK, ACK>> }

\* standard data frames other nodes put on the bus
BusFrames ==
    { new_standard(n, p).frame : n \in BusIds, p \in BusPayloads }

RECURSIVE Sum(_)
Sum(s) == IF s = <<>> THEN 0 ELSE Head(s) + Sum(Tail(s))

Min(a, b) == IF a < b THEN a ELSE b

---------------------------------------------------------------------------
(* State                                                                   *)

VARIABLES
    groups,      \* the filter groups rx.filter_groups() reports
    dev,         \* the channel's filter configuration
    startAddr,   \* write()'s and go()'s address argument
    imgLen,      \* length of the input stream
    pc,          \* the driver's position in main
    log,         \* every transmit and receive call the driver made, in order
    blocks,      \* num_bytes of every non-empty read, in order
    shortReads,  \* short reads so far
    i,           \* write()'s loop variable
    off,         \* bytes of the current block already sent
    result,      \* what main returns: the error and the frame it carries
    chan,        \* the channel: the native driver's side and the client's side
    fr           \* a frame under construction: the request and what came of it

vars == <<groups, dev, startAddr, imgLen, pc, log, blocks, shortReads, i, off, result, chan, fr>>

\* the variables that the channel's calls leave alone
driverVars == <<groups, startAddr, imgLen, pc, log, blocks, shortReads, i, off, result, fr>>

NoResult == [kind |-> "none", frame |-> NoFrame]

\* a log entry: the call (ev), the program position it was made at, the
\* number of the block write() was at (0 outside write()), and its frame
Ev(e, at, msg) == [ev |-> e, at |-> at, blk |-> Len(blocks), frame |-> msg]

\* no frame is under construction
NoRequest ==
    [crate |-> "pcan-basic", tag |-> PCAN_MESSAGE_STANDARD, id |-> 0, bytes |-> <<>>,
     step |-> "none", frame |-> NoFrame, dlc |-> 0, old |-> NoFrame]

\* the PCAN channel's filter after CAN_Initialize: one slot, every frame
\* is received (split() drains "all messages that were received since
\* init() has been called")
NativeDefault == [state |-> "OPEN", filters |-> <<>>, slots |-> 1]

\* an entry of the native receive queue: the frame and its number among
\* the frames that were on the bus
NoEntry == [frame |-> NoFrame, serial |-> 0]

\* the record of the client's last call: its result, the native status
\* it saw, the entry it returned, is_blocking when it was made, the native
\* calls it made, and for add_filter the filter and the filter operation
\* in force before it
NoCall ==
    [op |-> "none", res |-> "none", status |-> "none", entry |-> NoEntry,
     blocking |-> FALSE, trace |-> <<>>, fop |-> "none", before |-> NativeDefault,
     params |-> {}]

\* the channel before Interface::init()
ChanStart ==
    [ cpc         |-> "start",  \* the client's position
      initialized |-> FALSE,    \* the native channel is initialized
      inits       |-> 0,        \* CAN_Initialize calls that returned OK
      releases    |-> 0,        \* CAN_Uninitialize calls
      bound       |-> FALSE,    \* PCAN_RECEIVE_EVENT was accepted
      event       |-> FALSE,    \* the auto-reset event is signalled
      rxq         |-> <<>>,     \* the native receive queue
      txq         |-> <<>>,     \* the hardware transmit queue
      blocking    |-> FALSE,    \* Rx::is_blocking
      rpc         |-> "idle",   \* the position inside Rx::receive
      trace       |-> <<>>,     \* the native calls of the receive call in progress
      last        |-> NoCall,   \* the client's last call
      arrivals    |-> 0,        \* frames that were on the bus
      ops         |-> 0,        \* calls on Rx and Tx
      errs        |-> 0,        \* native error statuses so far
      sent        |-> <<>>,     \* the frames transmit returned Ok for
      prev        |-> 0,        \* the serial of the entry receive returned before the last
      fop         |-> "none",   \* the last filter operation that took effect
      closedAt    |-> 0,        \* arrivals when the filter was last cleared
      fault       |-> FALSE,    \* the bus is off: every CAN_Read reports it
      tick        |-> FALSE,    \* the parity of the reads split() has made
      splitAt     |-> 0 ]       \* arrivals when split() returned

\* the channel as main has it when it calls Bootloader::new
ChanAfterSplit ==
    [ChanStart EXCEPT !.cpc = "ready", !.initialized = TRUE, !.inits = 1,
                      !.bound = TRUE, !.blocking = TRUE, !.fop = "clear"]

\* the state after Interface::init(), split() and set_blocking(true):
\* the filter is closed and nothing was sent
Init ==
    /\ groups \in Capabilities
    /\ dev = [state |-> "CLOSE", filters |-> <<>>, slots |-> SumFilters(groups)]
    /\ startAddr \in StartAddrs
    /\ imgLen \in ImageLens
    /\ pc = "new"
    /\ log = <<>>
    /\ blocks = <<>>
    /\ shortReads = 0
    /\ i = 0
    /\ off = 0
    /\ result = NoResult
    /\ chan = ChanAfterSplit
    /\ fr = NoRequest

---------------------------------------------------------------------------
(* The driver's calls                                                      *)

\* faulty variant: the identifier is not compared
IsAckAnyId(msg, cmd) == data(msg) = <<ACK>>

\* faulty variant: the payload is not compared
IsAckAnyPayload(msg, cmd) == id(msg) = cmd

\* receive_ack's test: msg.id() == id && msg.data() == &[0x79]
IsAck(msg, cmd) == id(msg) = cmd /\ data(msg) = <<ACK>>

\* faulty variant: the error of a call is dropped
TryIgnoringErr(ok, next) == next

\* the `?` after a call: go on at `next`, or return the error from main
Try(ok, next) == IF ok THEN next ELSE "failed"

\* faulty variant: erase() awaits one acknowledgement only
ThenOneEraseAck(here) ==
    CASE here = "enable_send" -> "enable_ack"
      [] here = "enable_ack" -> "erase_send"
      [] here = "erase_send" -> "erase_ack1"
      [] here = "erase_ack1" -> "write_read"
      [] here = "erase_ack2" -> "write_read"
      [] here = "go_send" -> "go_ack"
      [] here = "go_ack" -> "done"

\* the call that follows a call in enable(), erase(), go() and main, outside
\* write()'s loop
Then(here) ==
    CASE here = "enable_send" -> "enable_ack"
      [] here = "enable_ack" -> "erase_send"
      [] here = "erase_send" -> "erase_ack1"
      [] here = "erase_ack1" -> "erase_ack2"
      [] here = "erase_ack2" -> "write_read"
      [] here = "go_send" -> "go_ack"
      [] here = "go_ack" -> "done"

\* Bootloader::send(id, data) at position `here`: one CAN_Write, whose
\* status is PCAN_ERROR_OK or an error
send(here, cmd, bytes, next) ==
    /\ pc = here
    /\ \E written \in BOOLEAN :
        LET msg == new_standard(cmd, bytes).frame IN
        /\ log' = Append(log, Ev(IF written THEN "tx" ELSE "txerr", here, msg))
        /\ pc' = Try(written, next)
        /\ result' = IF written THEN result
                     ELSE [kind |-> "transmit", frame |-> NoFrame]

\* faulty variant: a frame outside the target identifiers is skipped and the next
\* frame is awaited
receive_ack_skipping(here, cmd, next) ==
    /\ pc = here
    /\ \/ \E msg \in BusFrames :
            /\ Admitted(dev, msg)
            /\ log' = Append(log, Ev("rx", here, msg))
            /\ pc' = IF id(msg) \notin TargetIds THEN here ELSE Try(IsAck(msg, cmd), next)
            /\ result' = IF IsAck(msg, cmd) \/ id(msg) \notin TargetIds THEN result
                         ELSE [kind |-> "unexpected_ack", frame |-> msg]
       \/ /\ log' = Append(log, Ev("rxerr", here, NoFrame))
          /\ pc' = Try(FALSE, next)
          /\ result' = [kind |-> "receive", frame |-> NoFrame]

\* Bootloader::receive_ack(id) at position `here`: the blocking receive
\* returns the next frame the filter admitted, or the native read's error
receive_ack(here, cmd, next) ==
    /\ pc = here
    /\ \/ \E msg \in BusFrames :
            /\ Admitted(dev, msg)
            /\ log' = Append(log, Ev("rx", here, msg))
            /\ pc' = Try(IsAck(msg, cmd), next)
            /\ result' = IF IsAck(msg, cmd) THEN result
                         ELSE [kind |-> "unexpected_ack", frame |-> msg]
       \/ /\ log' = Append(log, Ev("rxerr", here, NoFrame))
          /\ pc' = Try(FALSE, next)
          /\ result' = [kind |-> "receive", frame |-> NoFrame]

\* let mut bl = Bootloader::new(rx, tx);
New ==
    /\ pc = "new"
    /\ LET r == Bootloader_new(groups, dev) IN
        /\ dev' = r.dev
        /\ pc' = IF r.ok THEN "enable_send" ELSE "panicked"
        /\ result' = IF r.ok THEN result ELSE [kind |-> r.panic, frame |-> NoFrame]
    /\ UNCHANGED <<fr, chan, groups, startAddr, imgLen, log, blocks, shortReads, i, off>>

\* enable(): self.send(0x79, &[])?
EnableSend ==
    /\ send("enable_send", SYNC_ID, <<>>, Then("enable_send"))
    /\ UNCHANGED <<fr, chan, groups, dev, startAddr, imgLen, blocks, shortReads, i, off>>

\* enable(): self.receive_ack(0x79)
EnableAck ==
    /\ receive_ack("enable_ack", SYNC_ID, Then("enable_ack"))
    /\ UNCHANGED <<fr, chan, groups, dev, startAddr, imgLen, blocks, shortReads, i, off>>

\* erase(): self.send(0x43, &[0xFF])?
EraseSend ==
    /\ send("erase_send", ERASE_ID, <<ERASE_ALL>>, Then("erase_send"))
    /\ UNCHANGED <<fr, chan, groups, dev, startAddr, imgLen, blocks, shortReads, i, off>>

\* erase(): self.receive_ack(0x43)?
EraseAck1 ==
    /\ receive_ack("erase_ack1", ERASE_ID, Then("erase_ack1"))
    /\ UNCHANGED <<fr, chan, groups, dev, startAddr, imgLen, blocks, shortReads, i, off>>

\* erase(): self.receive_ack(0x43); write()'s loop starts with i = 0
EraseAck2 ==
    /\ receive_ack("erase_ack2", ERASE_ID, Then("erase_ack2"))
    /\ UNCHANGED <<fr, chan, groups, dev, startAddr, imgLen, blocks, shortReads, i, off>>

\* bytes of the stream not read yet
Remaining == imgLen - Sum(blocks)

\* what data.read(&mut buf) may return: as many bytes as the buffer takes
\* and the stream holds, or fewer (a short read), never 0 before the end
ReadSizes ==
    LET full == Min(BOOTLOADER_BLOCK_LEN, Remaining)
    IN  {full} \cup {n \in ShortReads : n < full /\ shortReads < MaxShortReads}

\* faulty variant: a block that does not fill the buffer ends the loop
AfterReadShortEnds(num_bytes) ==
    IF num_bytes < BOOTLOADER_BLOCK_LEN THEN "go_send" ELSE "write_hdr_send"

\* faulty variant: the loop is left after the first block
AfterReadOneBlock(num_bytes) ==
    IF num_bytes = 0 \/ blocks # <<>> THEN "go_send" ELSE "write_hdr_send"

\* if num_bytes == 0 { break; }: write() returns Ok(()) and main calls go()
AfterRead(num_bytes) ==
    IF num_bytes = 0 THEN "go_send" ELSE "write_hdr_send"

\* write(): let num_bytes = data.read(&mut buf)?; if num_bytes == 0 { break; }
WriteRead ==
    /\ pc = "write_read"
    /\ \/ \E num_bytes \in ReadSizes :
            /\ blocks' = IF num_bytes = 0 THEN blocks ELSE Append(blocks, num_bytes)
            /\ shortReads' = IF num_bytes < Min(BOOTLOADER_BLOCK_LEN, Remaining)
                             THEN shortReads + 1 ELSE shortReads
            /\ pc' = AfterRead(num_bytes)
            /\ UNCHANGED <<result, log>>
       \/ /\ pc' = Try(FALSE, "write_hdr_send")
          /\ log' = Append(log, Ev("readerr", "write_read", NoFrame))
          /\ result' = [kind |-> "io", frame |-> NoFrame]
          /\ UNCHANGED <<blocks, shortReads>>
    /\ UNCHANGED <<fr, chan, groups, dev, startAddr, imgLen, i, off>>

\* num_bytes of the block being written
NumBytes == blocks[Len(blocks)]

\* position in the stream of the first byte of the block being written
BlockStart == Sum(blocks) - NumBytes

\* buf[..num_bytes]
Buf == [k \in 1..NumBytes |-> ImageByte(BlockStart + k - 1)]

\* msg_start: the address, big endian, and (num_bytes - 1) as u8
HeaderBytes(addr, num_bytes) == to_be_bytes(addr) \o <<(num_bytes - 1) % 256>>

\* the address of the block of the current iteration: addr + i
BlockAddr(addr, it) == Add32(addr, it)

\* write(): let addr = addr + i; self.send(0x31, &msg_start)?
\* addr + i panics on overflow when the build checks overflow, and wraps
\* when it does not
WriteHeaderSend ==
    LET a == BlockAddr(startAddr, i) IN
    \/ /\ send("write_hdr_send", WRITE_ID, HeaderBytes(a.val, NumBytes), "write_hdr_ack")
       /\ UNCHANGED <<fr, chan, groups, dev, startAddr, imgLen, blocks, shortReads, i, off>>
    \/ /\ pc = "write_hdr_send"
       /\ a.overflow
       /\ pc' = "panicked"
       /\ result' = [kind |-> "overflow", frame |-> NoFrame]
       /\ UNCHANGED <<fr, chan, groups, dev, startAddr, imgLen, log, blocks, shortReads, i, off>>

\* write(): self.receive_ack(0x31)?, then buf[..num_bytes].chunks(8) starts
WriteHeaderAck ==
    /\ receive_ack("write_hdr_ack", WRITE_ID, "write_data_send")
    /\ off' = 0
    /\ UNCHANGED <<fr, chan, groups, dev, startAddr, imgLen, blocks, shortReads, i>>

\* the chunk of buf that starts `done` bytes into the block
Chunk(buf, done) == SubSeq(buf, done + 1, Min(done + CHUNK_LEN, Len(buf)))

\* write(): self.send(0x04, msg_data)?
WriteDataSend ==
    /\ send("write_data_send", DATA_ID, Chunk(Buf, off), "write_data_ack")
    /\ UNCHANGED <<fr, chan, groups, dev, startAddr, imgLen, blocks, shortReads, i, off>>

\* where the chunk loop goes after a chunk: the next chunk, or out of the loop
AfterChunk(done, num_bytes) ==
    IF done < num_bytes THEN "write_data_send" ELSE "write_blk_ack"

\* faulty variant: no acknowledgement is awaited between two data frames
WriteDataNoAck ==
    /\ pc = "write_data_ack"
    /\ pc' = AfterChunk(off + CHUNK_LEN, NumBytes)
    /\ off' = off + CHUNK_LEN
    /\ UNCHANGED <<fr, chan, groups, dev, startAddr, imgLen, blocks, shortReads, i, log, result>>

\* write(): the self.receive_ack(0x31)? inside the chunk loop
WriteDataAck ==
    /\ receive_ack("write_data_ack", WRITE_ID, AfterChunk(off + CHUNK_LEN, NumBytes))
    /\ off' = off + CHUNK_LEN
    /\ UNCHANGED <<fr, chan, groups, dev, startAddr, imgLen, blocks, shortReads, i>>

\* write(): the self.receive_ack(0x31)? after the chunk loop; the for loop
\* then steps i by BOOTLOADER_BLOCK_LEN
WriteBlockAck ==
    /\ receive_ack("write_blk_ack", WRITE_ID, "write_read")
    /\ i' = IF pc' = "write_read" THEN i + BOOTLOADER_BLOCK_LEN ELSE i
    /\ UNCHANGED <<fr, chan, groups, dev, startAddr, imgLen, blocks, shortReads, off>>

\* go(): self.send(0x21, &addr.to_be_bytes())?
GoSend ==
    /\ send("go_send", GO_ID, to_be_bytes(startAddr), Then("go_send"))
    /\ UNCHANGED <<fr, chan, groups, dev, startAddr, imgLen, blocks, shortReads, i, off>>

\* go(): self.receive_ack(0x21), and main returns Ok(())
GoAck ==
    /\ receive_ack("go_ack", GO_ID, Then("go_ack"))
    /\ UNCHANGED <<fr, chan, groups, dev, startAddr, imgLen, blocks, shortReads, i, off>>

Next ==
    \/ New
    \/ EnableSend
    \/ EnableAck
    \/ EraseSend
    \/ EraseAck1
    \/ EraseAck2
    \/ WriteRead
    \/ WriteHeaderSend
    \/ WriteHeaderAck
    \/ WriteDataSend
    \/ WriteDataAck
    \/ WriteBlockAck
    \/ GoSend
    \/ GoAck

Spec == Init /\ [][Next]_vars

---------------------------------------------------------------------------
(* The channel transport (pcan-basic/src/lib.rs)                           *)

\* the frames other nodes put on the bus
ChanFrames ==
    { new_standard(SYNC_ID, <<ACK>>).frame, new_standard(ERASE_ID, <<ACK>>).frame }

\* the filters the client asks for
ChanFilters == { accept_all, Filter_new_standard(SYNC_ID) }

\* Error::new(error_code).  The buffer it hands to CAN_GetErrorText is the
\* allocation of a CString made from an empty vector, one byte long; the
\* text the native driver writes runs past its end.  The behaviour is
\* undefined: the call returns the error, or the corrupted heap ends the
\* process.  No error is made for the statuses the code does not pass on.
Error_new(status) ==
    IF status \in {"OK", "QRCVEMPTY"} THEN {"none"} ELSE {"error", "crash"}

\* the status CAN_Initialize returns
InitStatuses == {"OK", "ILLHANDLE"}

\* the status CAN_Read returns: a transient error a bounded number of
\* times, and the bus-off status at every call once the bus is off
ReadStatuses(c) ==
    IF c.fault THEN {"BUSOFF"}
    ELSE (IF c.rxq # <<>> THEN {"OK"} ELSE {"QRCVEMPTY"})
            \cup (IF c.errs < MaxErrs THEN {"BUSHEAVY"} ELSE {})

\* the status CAN_Write returns
WriteStatuses(c) ==
    {"OK"} \cup (IF c.errs < MaxErrs THEN {"XMTFULL"} ELSE {})

\* the process ended in the call `call`: nothing of the client is left, and
\* the operating system takes the channel's queues with it
Crashed(c, call) ==
    [ChanStart EXCEPT !.cpc = "crashed", !.inits = c.inits, !.releases = c.releases,
                      !.last = call]

\* Interface::init.  status, s1, created and s2 are what CAN_Initialize,
\* CAN_SetValue(PCAN_ALLOW_STATUS_FRAMES), CreateEventA and
\* CAN_SetValue(PCAN_RECEIVE_EVENT) return; out is Error::new's outcome.
Interface_init(c, status, s1, created, s2, out) ==
    LET call(res, text, accepted) ==
            [NoCall EXCEPT !.op = "init", !.res = res, !.status = text,
                           !.params = accepted]
        failed(x, text, accepted) ==
            IF out = "crash"
            THEN Crashed(x, call("crash", text, accepted))
            ELSE [x EXCEPT !.cpc = "init_failed", !.last = call("Err", text, accepted)]
        c1 == [c EXCEPT !.initialized = TRUE, !.inits = @ + 1]
        p1 == IF s1 THEN {"PCAN_ALLOW_STATUS_FRAMES"} ELSE {}
        p2 == IF s2 THEN {"PCAN_RECEIVE_EVENT"} ELSE {}
    IN  IF status # "OK" THEN failed(c, status, {})
        ELSE IF ~created THEN failed(c1, "CreateEventA", p1)
        ELSE [c1 EXCEPT !.bound = s2, !.cpc = "opened",
                        !.last = call("Ok", "OK", p1 \cup p2)]

\* let can = pcan_basic::Interface::init()?;
InterfaceInit ==
    /\ chan.cpc = "start"
    /\ \E status \in InitStatuses, s1 \in BOOLEAN, created \in BOOLEAN,
          s2 \in BOOLEAN, out \in {"error", "crash"} :
         /\ chan' = Interface_init(chan, status, s1, created, s2, out)
         /\ dev' = IF status = "OK" THEN NativeDefault ELSE dev
    /\ UNCHANGED driverVars

\* faulty variant: the arrival of a frame does not signal the event
ArriveSilent(c, d, msg) ==
    LET n == c.arrivals + 1 IN
    IF Admitted(d, msg)
    THEN [c EXCEPT !.arrivals = n,
                   !.rxq = Append(@, [frame |-> msg, serial |-> n])]
    ELSE [c EXCEPT !.arrivals = n]

\* the native driver takes a frame from the bus: a frame the filter admits
\* is queued, and the event bound to the receive notification is signalled
Arrive(c, d, msg) ==
    LET n == c.arrivals + 1 IN
    IF Admitted(d, msg)
    THEN [c EXCEPT !.arrivals = n,
                   !.rxq = Append(@, [frame |-> msg, serial |-> n]),
                   !.event = (@ \/ c.bound)]
    ELSE [c EXCEPT !.arrivals = n]

Bus ==
    /\ chan.initialized
    /\ chan.cpc \in {"opened", "drain", "ready"}
    /\ chan.arrivals < MaxArrivals
    /\ \E msg \in ChanFrames : chan' = Arrive(chan, dev, msg)
    /\ UNCHANGED <<dev, driverVars>>

\* the controller goes bus-off while the client opens the channel: from
\* then on CAN_Read reports the bus status and hands out no frame
Fault ==
    /\ chan.cpc \in {"opened", "drain"}
    /\ ~chan.fault
    /\ chan' = [chan EXCEPT !.fault = TRUE]
    /\ UNCHANGED <<dev, driverVars>>

\* split(): rx.clear_filters() on a receiver with is_blocking false
Split ==
    /\ chan.cpc = "opened"
    /\ dev' = clear_filters(dev)
    /\ chan' = [chan EXCEPT !.cpc = "drain", !.blocking = FALSE,
                            !.fop = "clear", !.closedAt = chan.arrivals]
    /\ UNCHANGED driverVars

\* Rx::receive without the wait of the blocking receiver: one CAN_Read and
\* the match on its status
receive_once(c, st, out) ==
    IF st = "OK"
    THEN [chan |-> [c EXCEPT !.rxq = Tail(@)], res |-> "Ok", entry |-> Head(c.rxq)]
    ELSE IF st = "QRCVEMPTY"
    THEN [chan |-> c, res |-> "WouldBlock", entry |-> NoEntry]
    ELSE [chan |-> [c EXCEPT !.errs = IF c.fault THEN @ ELSE @ + 1],
          res |-> IF out = "crash" THEN "crash" ELSE "Err", entry |-> NoEntry]

\* faulty variant: the drain stops at the first result
DrainDoneAtOnce(res) == res \in {"WouldBlock", "Ok", "Err"}

\* if let Err(nb::Error::WouldBlock) = rx.receive() { break; }
DrainDone(res) == res = "WouldBlock"

\* split(): one turn of the loop that drains the receive queue
SplitDrain ==
    /\ chan.cpc = "drain"
    /\ \E st \in ReadStatuses(chan) : \E out \in Error_new(st) :
         LET r == receive_once(chan, st, out)
             call(res) == [NoCall EXCEPT !.op = "split", !.res = res, !.status = st]
         IN  chan' = IF r.res = "crash" THEN Crashed(r.chan, call("crash"))
                     ELSE IF DrainDone(r.res)
                     THEN [r.chan EXCEPT !.cpc = "ready", !.splitAt = chan.arrivals,
                                         !.tick = FALSE, !.last = call("Ok")]
                     ELSE [r.chan EXCEPT !.tick = ~@]
    /\ UNCHANGED <<dev, driverVars>>

\* the client may make a call on the Rx or the Tx
MayCall ==
    /\ chan.cpc = "ready"
    /\ chan.rpc = "idle"
    /\ chan.ops < MaxOps

\* Rx::set_blocking
SetBlocking ==
    /\ MayCall
    /\ \E b \in BOOLEAN :
         /\ b # chan.blocking
         /\ chan' = [chan EXCEPT !.blocking = b, !.ops = @ + 1,
                                 !.last = [NoCall EXCEPT !.op = "set_blocking",
                                                         !.res = "Ok",
                                                         !.blocking = b]]
    /\ UNCHANGED <<dev, driverVars>>

\* rx.add_filter(&filter)
AddFilter ==
    /\ MayCall
    /\ \E filter \in ChanFilters :
         LET r == add_filter(dev, filter) IN
         /\ dev' = r.dev
         /\ chan' = [chan EXCEPT
                !.ops = @ + 1,
                !.fop = IF ~r.ok THEN @
                        ELSE IF filter.accept_all THEN "wild" ELSE "custom",
                !.last = [NoCall EXCEPT
                            !.op = "add_filter",
                            !.res = IF r.ok THEN "Ok" ELSE "FilterAlreadyConfigured",
                            !.fop = chan.fop,
                            !.before = dev]]
    /\ UNCHANGED driverVars

\* rx.clear_filters()
ClearFilters ==
    /\ MayCall
    /\ dev' = clear_filters(dev)
    /\ chan' = [chan EXCEPT !.ops = @ + 1, !.fop = "clear",
                            !.closedAt = chan.arrivals,
                            !.last = [NoCall EXCEPT !.op = "clear_filters",
                                                    !.res = "Ok"]]
    /\ UNCHANGED driverVars

\* rx.receive(): one CAN_Read of the call.  On an empty queue a blocking
\* receiver goes on to WaitForSingleObject; every other status ends the call.
Receive ==
    /\ chan.cpc = "ready"
    /\ \/ chan.rpc = "poll"
       \/ chan.rpc = "idle" /\ chan.ops < MaxOps
    /\ \E st \in ReadStatuses(chan) : \E out \in Error_new(st) :
         LET r    == receive_once(chan, st, out)
             tr   == Append(chan.trace, st)
             c1   == [r.chan EXCEPT !.ops = IF chan.rpc = "idle" THEN @ + 1 ELSE @]
             call == [NoCall EXCEPT !.op = "receive", !.res = r.res, !.status = st,
                                    !.entry = r.entry, !.blocking = chan.blocking,
                                    !.trace = tr]
         IN  chan' =
               IF r.res = "WouldBlock" /\ chan.blocking
               THEN [c1 EXCEPT !.rpc = "wait", !.trace = tr]
               ELSE IF r.res = "crash"
               THEN Crashed(c1, call)
               ELSE [c1 EXCEPT
                       !.rpc = "idle",
                       !.trace = <<>>,
                       !.prev = IF chan.last.op = "receive" /\ chan.last.res = "Ok"
                                THEN chan.last.entry.serial ELSE @,
                       !.last = call]
    /\ UNCHANGED <<dev, driverVars>>

\* WaitForSingleObject(event_handle, INFINITE), then self.receive(): the wait
\* returns when the auto-reset event is signalled and resets it
WaitForSingleObject ==
    /\ chan.cpc = "ready"
    /\ chan.rpc = "wait"
    /\ chan.event
    /\ chan' = [chan EXCEPT !.event = FALSE, !.rpc = "poll",
                            !.trace = Append(@, "wait")]
    /\ UNCHANGED <<dev, driverVars>>

\* Tx::transmit: one CAN_Write and the test of its status
transmit(c, msg, st, out) ==
    LET c1 == [c EXCEPT !.ops = @ + 1]
        call(res) == [NoCall EXCEPT !.op = "transmit", !.res = res, !.status = st,
                                    !.entry = [frame |-> msg, serial |-> 0],
                                    !.trace = <<"CAN_Write">>]
    IN  IF st = "OK"
        THEN [c1 EXCEPT !.txq = Append(@, msg), !.sent = Append(@, msg),
                        !.last = call("Ok")]
        ELSE IF out = "crash"
        THEN Crashed(c1, call("crash"))
        ELSE [c1 EXCEPT !.errs = @ + 1, !.last = call("Err")]

\* tx.transmit(&frame)
Transmit ==
    /\ MayCall
    /\ \E msg \in ChanFrames, st \in WriteStatuses(chan) : \E out \in Error_new(st) :
         chan' = transmit(chan, msg, st, out)
    /\ UNCHANGED <<dev, driverVars>>

\* Drop for Interface: the Rx and the Tx borrow the Interface, no call is
\* in progress when it is dropped.  CAN_Uninitialize releases the channel
\* and its queues.
Drop ==
    /\ chan.cpc \in {"opened", "ready"}
    /\ chan.rpc = "idle"
    /\ chan' = [ChanStart EXCEPT !.cpc = "dropped", !.inits = chan.inits,
                                 !.releases = chan.releases + 1,
                                 !.last = [NoCall EXCEPT !.op = "drop", !.res = "Ok"]]
    /\ UNCHANGED <<dev, driverVars>>

\* the client before it calls Interface::init(): the PCAN channel reports
\* one filter group of one filter with a mask
InitChan ==
    /\ groups = <<[num_filters |-> 1, mask |-> TRUE]>>
    /\ dev = [state |-> "CLOSE", filters |-> <<>>, slots |-> 1]
    /\ startAddr = U32(FLASH_BASE_HI, 0)
    /\ imgLen = 0
    /\ pc = "new"
    /\ log = <<>>
    /\ blocks = <<>>
    /\ shortReads = 0
    /\ i = 0
    /\ off = 0
    /\ result = NoResult
    /\ chan = ChanStart
    /\ fr = NoRequest

NextChan ==
    \/ InterfaceInit
    \/ Bus
    \/ Fault
    \/ Split
    \/ SplitDrain
    \/ SetBlocking
    \/ AddFilter
    \/ ClearFilters
    \/ Receive
    \/ WaitForSingleObject
    \/ Transmit
    \/ Drop

SpecChan == InitChan /\ [][NextChan]_vars

\* the poll that follows the wait inside a blocking Rx::receive
ReceivePoll == chan.rpc = "poll" /\ Receive

\* the client's thread runs: a split() in its drain loop makes its next
\* read, a receive whose wait can return returns from it and polls again.
\* Nothing obliges the bus to deliver or the client to make a new call.
SpecChanFair ==
    /\ InitChan
    /\ [][NextChan]_vars
    /\ WF_vars(SplitDrain)
    /\ WF_vars(WaitForSingleObject)
    /\ WF_vars(ReceivePoll)

---------------------------------------------------------------------------
(* The frame codec (impl can::Frame for Frame, in both crates)             *)

\* identifiers at and around the ends of the two ranges
FrameIds == {0, 1, 291, STD_ID_MAX, STD_ID_MAX + 1, 74565, EXT_ID_MAX, EXT_ID_MAX + 1}

\* the data slice of n bytes that starts with the byte b
Slice(b, n) == [k \in 1..n |-> (b + 37 * (k - 1)) % 256]

FrameData == { Slice(b, n) : b \in {0, 171, 255}, n \in 0..MaxDataLen }

\* the dlc arguments of with_rtr
Dlcs == 0..MaxDataLen

\* the requests: the crate, the constructor, the identifier and the data
InitFrame ==
    /\ groups = <<[num_filters |-> 1, mask |-> TRUE]>>
    /\ dev = [state |-> "CLOSE", filters |-> <<>>, slots |-> 1]
    /\ startAddr = U32(FLASH_BASE_HI, 0)
    /\ imgLen = 0
    /\ pc = "new"
    /\ log = <<>>
    /\ blocks = <<>>
    /\ shortReads = 0
    /\ i = 0
    /\ off = 0
    /\ result = NoResult
    /\ chan = ChanStart
    /\ \E crate \in {"pcan-basic", "pcan"},
          tag \in {PCAN_MESSAGE_STANDARD, PCAN_MESSAGE_EXTENDED},
          n \in FrameIds, bytes \in FrameData :
         fr = [NoRequest EXCEPT !.crate = crate, !.tag = tag, !.id = n,
                                !.bytes = bytes, !.step = "request"]

\* Frame::new_standard(id, data) or Frame::new_extended(id, data)
FrameNew ==
    /\ fr.step = "request"
    /\ fr' = IF fr.crate = "pcan-basic"
             THEN LET r == IF fr.tag = PCAN_MESSAGE_STANDARD
                           THEN new_standard(fr.id, fr.bytes)
                           ELSE new_extended(fr.id, fr.bytes)
                  IN  [fr EXCEPT !.step = IF r.ok THEN "built" ELSE "invalid",
                                 !.frame = r.frame]
             ELSE LET r == pcan_new(fr.tag, fr.id, fr.bytes)
                  IN  [fr EXCEPT !.step = IF r.panic THEN "new_panicked" ELSE "built",
                                 !.frame = r.frame]
    /\ UNCHANGED <<dev, chan, groups, startAddr, imgLen, pc, log, blocks, shortReads,
                   i, off, result>>

\* frame.with_rtr(dlc)
FrameWithRtr ==
    /\ fr.step = "built"
    /\ fr.crate = "pcan-basic"
    /\ \E n \in Dlcs :
         LET r == with_rtr(fr.frame, n) IN
         fr' = [fr EXCEPT !.step = IF r.panic THEN "rtr_panicked" ELSE "remote",
                          !.frame = r.frame, !.dlc = n, !.old = fr.frame]
    /\ UNCHANGED <<dev, chan, groups, startAddr, imgLen, pc, log, blocks, shortReads,
                   i, off, result>>

\* frame.set_rtr(true) of the pcan crate, which takes no dlc
FrameSetRtr ==
    /\ fr.step = "built"
    /\ fr.crate = "pcan"
    /\ fr' = [fr EXCEPT !.step = "remote", !.frame = set_rtr(fr.frame, TRUE),
                        !.dlc = 0, !.old = fr.frame]
    /\ UNCHANGED <<dev, chan, groups, startAddr, imgLen, pc, log, blocks, shortReads,
                   i, off, result>>

NextFrame ==
    \/ FrameNew
    \/ FrameWithRtr
    \/ FrameSetRtr

SpecFrame == InitFrame /\ [][NextFrame]_vars

---------------------------------------------------------------------------
(* Reading the log                                                         *)

Positions == 1..Len(log)

\* the command identifier whose acknowledgement is pending at a position
PendingId(at) ==
    CASE at = "enable_ack" -> SYNC_ID
      [] at \in {"erase_ack1", "erase_ack2"} -> ERASE_ID
      [] at \in {"write_hdr_ack", "write_data_ack", "write_blk_ack"} -> WRITE_ID
      [] at = "go_ack" -> GO_ID
      [] OTHER -> 0 - 1

\* entry k is a received frame with the pending identifier and payload [0x79]
ValidAckAt(k) ==
    /\ log[k].ev = "rx"
    /\ log[k].frame.ID = PendingId(log[k].at)
    /\ log[k].frame.LEN = 1
    /\ log[k].frame.DATA[1] = ACK

\* entry k is a call that did not succeed
FailureAt(k) ==
    \/ log[k].ev \in {"txerr", "rxerr", "readerr"}
    \/ log[k].ev = "rx" /\ ~ValidAckAt(k)

\* the driver went on after the call of entry k
WentOn(k) == k < Len(log) \/ pc # "failed"

\* entries of frames that reached the bus from a position
SentAt(at) == {k \in Positions : log[k].ev = "tx" /\ log[k].at = at}

HeaderPos == SentAt("write_hdr_send")

\* the number of the block whose header is entry k
BlockOf(k) == log[k].blk

\* the entries between the header of block j and the next header (or the end
\* of write())
InBlock(j) ==
    {k \in Positions :
        /\ log[k].at \in {"write_hdr_ack", "write_data_send", "write_data_ack",
                          "write_blk_ack"}
        /\ log[k].blk = j}

\* block j was written completely: its last acknowledgement was accepted
Complete(j) ==
    \E k \in InBlock(j) : log[k].at = "write_blk_ack" /\ ValidAckAt(k)

CeilDiv(a, b) == (a + b - 1) \div b

\* the position of the stream where block j starts
Offset(j) == Sum(SubSeq(blocks, 1, j - 1))

\* write() returned Ok(())
WriteReturned ==
    \/ pc \in {"go_send", "go_ack", "done"}
    \/ pc = "failed" /\ log # <<>> /\ log[Len(log)].at \in {"go_send", "go_ack"}

---------------------------------------------------------------------------
(* C1: the header of every block is sent on 0x31 and carries 5 bytes: the  *)
(* big-endian encoding of start_address plus the number of bytes of all    *)
(* earlier blocks, then block_length - 1; also after a short read.         *)

C1_HeaderAtCumulativeOffset ==
    \A k \in HeaderPos :
        /\ log[k].frame.ID = WRITE_ID
        /\ log[k].frame.LEN = 5
        /\ data(log[k].frame) =
              to_be_bytes(Add32(startAddr, Offset(BlockOf(k))).val)
                 \o <<blocks[BlockOf(k)] - 1>>

\* what the code does instead: block j goes to start_address + 256 * (j - 1)
C1_HeaderAtBlockIndex ==
    \A k \in HeaderPos :
        /\ log[k].frame.ID = WRITE_ID
        /\ log[k].frame.LEN = 5
        /\ data(log[k].frame) =
              to_be_bytes(Add32(startAddr, BOOTLOADER_BLOCK_LEN * (BlockOf(k) - 1)).val)
                 \o <<blocks[BlockOf(k)] - 1>>

C1_ShortReadSeen ==
    /\ Len(blocks) >= 2
    /\ blocks[1] < BOOTLOADER_BLOCK_LEN
    /\ Cardinality(HeaderPos) >= 2

---------------------------------------------------------------------------
(* C2 (as stated): within a block no frame is received between two data    *)
(* frames, and a block consumes exactly two received frames: one after     *)
(* the header and one after the last data frame.                           *)

RxIn(j) == {k \in InBlock(j) : log[k].ev = "rx"}

---------------------------------------------------------------------------
(* C3: write() with start address 0x08000000 and a 300-byte input issues   *)
(* exactly two headers, for blocks of 256 and 44 bytes at 0x08000000 and   *)
(* 0x08000100, followed by 32 and 6 data frames; a block of n bytes is     *)
(* followed by ceil(n/8) data frames of 1..8 bytes, and the payloads of    *)
(* all data frames in order are the input stream.                          *)

DataPos == SentAt("write_data_send")

\* the data frames of block j
DataIn(j) == {k \in InBlock(j) : k \in DataPos}

\* the payloads of the data frames sent so far, concatenated in order
RECURSIVE Payloads(_)
Payloads(k) ==
    IF k = 0 THEN <<>>
    ELSE Payloads(k - 1) \o (IF k \in DataPos THEN data(log[k].frame) ELSE <<>>)

\* the first n bytes of the input stream
Stream(n) == [p \in 1..n |-> ImageByte(p - 1)]

C3_DataFramesCarryTheStream ==
    /\ \A k \in DataPos :
          log[k].frame.ID = DATA_ID /\ log[k].frame.LEN \in 1..CHUNK_LEN
    /\ \A j \in 1..Len(blocks) :
          Complete(j) => Cardinality(DataIn(j)) = CeilDiv(blocks[j], CHUNK_LEN)
    /\ LET sent == Payloads(Len(log)) IN
          /\ Len(sent) <= imgLen
          /\ sent = Stream(Len(sent))
          /\ WriteReturned => Len(sent) = imgLen

C3_TwoBlocksOf300 ==
    (WriteReturned /\ imgLen = 300 /\ startAddr = U32(FLASH_BASE_HI, 0)) =>
        /\ Cardinality(HeaderPos) = 2
        /\ \A k \in HeaderPos :
              /\ BlockOf(k) = 1 => data(log[k].frame) = <<8, 0, 0, 0, 255>>
              /\ BlockOf(k) = 2 => data(log[k].frame) = <<8, 0, 1, 0, 43>>
        /\ Cardinality(DataIn(1)) = 32
        /\ Cardinality(DataIn(2)) = 6

C3_WriteOf300 == C3_TwoBlocksOf300 /\ C3_DataFramesCarryTheStream

\* the concrete case holds when no read was short
C3_TwoBlocksOf300FullReads == shortReads = 0 => C3_TwoBlocksOf300

---------------------------------------------------------------------------
(* C4: a received frame is accepted as the acknowledgement of the pending  *)
(* command identifier X iff its identifier is X and its payload is exactly *)
(* the byte 0x79; every other frame makes the step return an error that    *)
(* carries the frame.                                                      *)

C4_AckAcceptedIff ==
    \A k \in Positions :
        log[k].ev = "rx" =>
            /\ WentOn(k) <=> /\ log[k].frame.ID = PendingId(log[k].at)
                             /\ log[k].frame.LEN = 1
                             /\ log[k].frame.DATA[1] = ACK
            /\ ~WentOn(k) => result = [kind |-> "unexpected_ack", frame |-> log[k].frame]

\* a frame with the payload [0x79] on another identifier was rejected after
\* an acknowledgement had been accepted
C4_Witness ==
    /\ pc = "failed"
    /\ Len(log) >= 4
    /\ log[Len(log)].ev = "rx"
    /\ log[Len(log)].frame.ID # PendingId(log[Len(log)].at)
    /\ data(log[Len(log)].frame) = <<ACK>>
    /\ ValidAckAt(2)

---------------------------------------------------------------------------
(* C5: enable() transmits exactly one frame (identifier 0x79, no payload)  *)
(* and then receives exactly one frame; it succeeds only if that frame has *)
(* identifier 0x79 and payload [0x79]; any other frame is an error, and    *)
(* the sync command is not sent again nor is a further frame read.         *)

EnableReturnedOk == pc \notin {"new", "panicked", "enable_send", "enable_ack"}
                    /\ ~(pc = "failed" /\ log[Len(log)].at \in {"enable_send", "enable_ack"})

C5_EnableOneFrameOneAck ==
    LET calls == {k \in Positions : log[k].at \in {"enable_send", "enable_ack"}} IN
    /\ Cardinality({k \in calls : log[k].at = "enable_send"}) <= 1
    /\ Cardinality({k \in calls : log[k].at = "enable_ack"}) <= 1
    /\ calls \subseteq {1, 2}
    /\ \A k \in SentAt("enable_send") :
          k = 1 /\ log[k].frame = new_standard(SYNC_ID, <<>>).frame
    /\ \A k \in calls : log[k].at = "enable_ack" => k = 2 /\ log[1].ev = "tx"
    /\ EnableReturnedOk =>
          /\ Len(log) >= 2
          /\ log[1].ev = "tx"
          /\ log[2].ev = "rx"
          /\ log[2].frame.ID = SYNC_ID
          /\ data(log[2].frame) = <<ACK>>
    /\ (Len(log) >= 2 /\ log[2].ev = "rx"
           /\ ~(log[2].frame.ID = SYNC_ID /\ data(log[2].frame) = <<ACK>>))
          => /\ Len(log) = 2
             /\ pc = "failed"
             /\ result.kind = "unexpected_ack"

\* enable() failed on a frame that is no acknowledgement of the sync command
C5_Witness ==
    /\ pc = "failed"
    /\ Len(log) = 2
    /\ log[2].ev = "rx"
    /\ log[2].frame.ID = SYNC_ID
    /\ data(log[2].frame) # <<ACK>>

---------------------------------------------------------------------------
(* C6: erase() transmits one frame (identifier 0x43, payload [0xFF]) and   *)
(* succeeds only after two consecutive received frames were both valid     *)
(* acknowledgements on 0x43; when the first is valid and the second        *)
(* receive yields an error or an invalid frame, erase() returns an error   *)
(* and no write or go frame is transmitted afterwards.                     *)

\* the session is past erase(): Erased, Writing or Jumped
Erased ==
    \/ pc \in {"write_read", "write_hdr_send", "write_hdr_ack", "write_data_send",
               "write_data_ack", "write_blk_ack", "go_send", "go_ack", "done"}
    \/ \E k \in Positions : log[k].at \notin {"enable_send", "enable_ack", "erase_send",
                                             "erase_ack1", "erase_ack2"}

---------------------------------------------------------------------------
(* C7: the commands reach the bus only in the order enable, erase, write   *)
(* loop, go: the erase command only after enable's acknowledgement was     *)
(* accepted, the first write header only after both erase acknowledgements *)
(* were accepted, the go command only after write() returned success.      *)

\* the step of the update a position belongs to
StepOf(at) ==
    CASE at \in {"enable_send", "enable_ack"} -> 1
      [] at \in {"erase_send", "erase_ack1", "erase_ack2"} -> 2
      [] at \in {"write_read", "write_hdr_send", "write_hdr_ack", "write_data_send",
                 "write_data_ack", "write_blk_ack"} -> 3
      [] at \in {"go_send", "go_ack"} -> 4
      [] OTHER -> 5

C7_CommandOrder ==
    /\ \A k \in Positions :
          /\ k > 1 => StepOf(log[k - 1].at) <= StepOf(log[k].at)
          /\ log[k].at = "enable_send" => k = 1
          /\ log[k].at = "erase_send" =>
                k = 3 /\ log[2].at = "enable_ack" /\ ValidAckAt(2)
          /\ (log[k].at = "write_hdr_send" /\ log[k].blk = 1) =>
                /\ k = 6
                /\ log[4].at = "erase_ack1" /\ ValidAckAt(4)
                /\ log[5].at = "erase_ack2" /\ ValidAckAt(5)
          /\ (log[k].at = "write_hdr_send" /\ log[k].blk > 1) =>
                log[k - 1].at = "write_blk_ack" /\ ValidAckAt(k - 1)
          /\ log[k].at = "go_send" =>
                /\ k >= 6
                /\ log[k - 1].at \in {"erase_ack2", "write_blk_ack"}
                /\ ValidAckAt(k - 1)
                /\ Sum(blocks) = imgLen
                /\ \A j \in 1..Len(blocks) : Complete(j)
    /\ Cardinality({k \in Positions : log[k].at = "go_send"}) <= 1
    /\ pc = "done" => /\ ValidAckAt(Len(log))
                      /\ log[Len(log)].at = "go_ack"
                      /\ log[Len(log) - 1].ev = "tx"

\* the whole update of a non-empty image ran through
C7_Witness ==
    /\ pc = "done"
    /\ Len(blocks) >= 2

---------------------------------------------------------------------------
(* C8: after a step fails (a transmit error, a receive error, an           *)
(* unexpected acknowledgement, also in the middle of write()) the driver   *)
(* transmits and receives no further frame, and the error reaches the      *)
(* caller.                                                                 *)

---------------------------------------------------------------------------
(* C9 (as stated): a frame whose identifier is outside the target set      *)
(* {0x79, 0x43, 0x31, 0x21} and that passed the hardware filter is never   *)
(* taken as an acknowledgement, and is skipped: it makes the pending step  *)
(* neither succeed nor fail.                                               *)

C9_UnrelatedFrameSkipped ==
    \A k \in Positions :
        (log[k].ev = "rx" /\ log[k].frame.ID \notin TargetIds) =>
            /\ ~(k < Len(log) /\ log[k + 1].at # log[k].at)
            /\ ~(k = Len(log) /\ pc = "failed")

(* C9 (amended): a frame whose identifier is outside the target set and    *)
(* that passed the hardware filter is never taken as an acknowledgement;   *)
(* it is not skipped: the pending step fails on it with an error that      *)
(* carries the frame, and no further frame is read.                        *)

C9_UnrelatedFrameFailsTheStep ==
    \A k \in Positions :
        (log[k].ev = "rx" /\ log[k].frame.ID \notin TargetIds) =>
            /\ Admitted(dev, log[k].frame)
            /\ k = Len(log)
            /\ pc = "failed"
            /\ result = [kind |-> "unexpected_ack", frame |-> log[k].frame]

\* a frame on identifier 0x04 with payload [0x79] passed the combined filter
\* of the PCAN channel while enable() waited
C9_Witness ==
    /\ groups = << [num_filters |-> 1, mask |-> TRUE] >>
    /\ Len(log) = 2
    /\ log[2].ev = "rx"
    /\ log[2].frame.ID = DATA_ID
    /\ data(log[2].frame) = <<ACK>>
    /\ pc = "failed"

---------------------------------------------------------------------------
(* C10: filter negotiation: with at least as many slots as target          *)
(* identifiers one exact-match filter per identifier and no masked filter  *)
(* is installed (also when masks are available); else with masks exactly   *)
(* one combined filter; else it fails for lack of filters and installs     *)
(* nothing.  4 slots: the list; 1 slot and mask: the combined filter;      *)
(* 1 slot, no mask: failure.                                               *)

ExactList == [k \in 1..4 |->
    [accept_all |-> FALSE, is_extended |-> FALSE, id |-> rx_ids[k], mask |-> STD_ID_MAX]]

C10_Negotiation ==
    pc # "new" =>
        LET slots == SumFilters(groups)
            masks == \E g \in 1..Len(groups) : groups[g].mask
        IN  /\ slots >= 4 =>
                 /\ dev.filters = ExactList
                 /\ result.kind \notin {"not_enough_filters", "unwrap"}
            /\ (slots < 4 /\ masks) =>
                 /\ Len(dev.filters) = 1
                 /\ dev.filters[1].mask # STD_ID_MAX
                 /\ ~dev.filters[1].accept_all
                 /\ result.kind \notin {"not_enough_filters", "unwrap"}
            /\ (slots < 4 /\ ~masks) =>
                 /\ pc = "panicked"
                 /\ result.kind = "not_enough_filters"
                 /\ dev.filters = <<>>
                 /\ dev.state = "CLOSE"
                 /\ log = <<>>

\* the list was installed on a receiver that also has masks
C10_Witness ==
    /\ pc = "enable_send"
    /\ SumFilters(groups) = 4
    /\ AnyMask(groups)
    /\ Len(dev.filters) = 4

---------------------------------------------------------------------------
(* C11: in the masked branch the combined filter installed for the         *)
(* targets 0x79, 0x43, 0x31, 0x21 has the mask 0x7B, the OR of the        *)
(* targets, and the base identifier 0x01, the AND of the targets.          *)

MaskedBranch ==
    /\ pc \notin {"new", "panicked"}
    /\ Negotiate(SumFilters(groups), AnyMask(groups)) = "mask"

C11_MaskIsOrBaseIsAnd ==
    MaskedBranch =>
        /\ Len(dev.filters) = 1
        /\ dev.filters[1].mask = 123
        /\ dev.filters[1].id = 1

\* what new() installs: the mask is the OR, the base is 0 (id starts at 0
\* and is only ever and-ed)
C11_MaskIsOrBaseIsZero ==
    MaskedBranch =>
        /\ Len(dev.filters) = 1
        /\ dev.filters[1].mask = 123
        /\ dev.filters[1].id = 0

C11_Witness ==
    /\ MaskedBranch
    /\ groups = <<[num_filters |-> 1, mask |-> TRUE]>>
    /\ pc = "enable_send"

---------------------------------------------------------------------------
(* C12: under the must-match semantics of the mask, every target           *)
(* identifier passes the installed combined filter: the hardware filter    *)
(* rejects no acknowledgement of the protocol.                             *)

C12_TargetsPassCombinedFilter ==
    MaskedBranch =>
        \A t \in TargetIds : Admitted(dev, new_standard(t, <<ACK>>).frame)

\* the acknowledgements the installed combined filter lets through
C12_PassingTargets ==
    { t \in TargetIds : Admitted(dev, new_standard(t, <<ACK>>).frame) }

C12_NoTargetPasses ==
    MaskedBranch => C12_PassingTargets = {}

\* the filter the claim describes (base 0x01, mask 0x7B) lets none through either
C12_NoTargetPassesIntendedFilter ==
    \A t \in TargetIds :
        ~Passes(with_mask(Filter_new_standard(1), 123), new_standard(t, <<ACK>>).frame)

---------------------------------------------------------------------------
(* C13: on an open channel, once add_filter has installed a custom filter, *)
(* every later add_filter call with no clear_filters in between fails with *)
(* the filter-already-configured error and leaves the device's filter      *)
(* configuration as it was; at most one filter configuration is active.    *)

C13_SecondAddFilterFails ==
    /\ (chan.last.op = "add_filter" /\ chan.last.fop = "custom") =>
          /\ chan.last.res = "FilterAlreadyConfigured"
          /\ dev = chan.last.before
    /\ Len(dev.filters) <= 1
    /\ ~(dev.state = "OPEN" /\ dev.filters # <<>>)

\* the second add_filter asked for the wildcard and the exact filter stayed
C13_Witness ==
    /\ chan.last.op = "add_filter"
    /\ chan.last.fop = "custom"
    /\ chan.last.res = "FilterAlreadyConfigured"
    /\ dev.filters = <<Filter_new_standard(SYNC_ID)>>
    /\ chan.ops = 2

---------------------------------------------------------------------------
(* C14: clear_filters() leaves the channel rejecting every frame: after    *)
(* clear_filters(), and so after split(), no frame that arrives on the bus *)
(* is queued for or returned by receive until an add_filter call succeeds; *)
(* the channel accepts every frame only after add_filter(accept_all).      *)

C14_ClearFiltersRejectsAll ==
    /\ chan.fop = "clear" =>
          /\ GetFilterState(dev) = "CLOSE"
          /\ \A k \in 1..Len(chan.rxq) : chan.rxq[k].serial <= chan.closedAt
          /\ (chan.last.op = "receive" /\ chan.last.res = "Ok") =>
                 chan.last.entry.serial <= chan.closedAt
    /\ (chan.cpc \in {"drain", "ready"} /\ GetFilterState(dev) = "OPEN") =>
          chan.fop = "wild"

\* a frame was on the bus after clear_filters() and receive found nothing
C14_Witness ==
    /\ chan.cpc = "ready"
    /\ chan.fop = "clear"
    /\ chan.last.op = "receive"
    /\ chan.last.res = "WouldBlock"
    /\ chan.arrivals > chan.closedAt
    /\ chan.closedAt > chan.splitAt

---------------------------------------------------------------------------
(* C15: when split() returns the receive queue is empty, and no frame the  *)
(* hardware queued between init() and split() is returned by a later       *)
(* receive call, however many frames arrived before split().               *)

C15_NoStaleTraffic ==
    /\ (chan.last.op = "split" /\ chan.last.res = "Ok") => chan.rxq = <<>>
    /\ chan.cpc = "ready" =>
          /\ \A k \in 1..Len(chan.rxq) : chan.rxq[k].serial > chan.splitAt
          /\ (chan.last.op = "receive" /\ chan.last.res = "Ok") =>
                 chan.last.entry.serial > chan.splitAt

\* two frames were queued before split(), a later one was received
C15_Witness ==
    /\ chan.cpc = "ready"
    /\ chan.splitAt = 2
    /\ chan.last.op = "receive"
    /\ chan.last.res = "Ok"
    /\ chan.last.entry.serial = 3

---------------------------------------------------------------------------
(* C16: the blocking receive returns the first frame a poll finds, returns *)
(* the error of the first poll whose status is neither OK nor queue-empty, *)
(* never returns WouldBlock, and makes exactly one wait on the receive     *)
(* event after every poll that found the queue empty.                      *)

\* polls on an empty queue and waits take turns
Alternates(t, n) ==
    \A k \in 1..n : t[k] = IF k % 2 = 1 THEN "QRCVEMPTY" ELSE "wait"

\* the calls of a blocking receive that returned one of `errors` on a status
\* that is neither OK nor queue-empty
BlockingReceive(errors) ==
    /\ chan.rpc = "wait" => Alternates(chan.trace, Len(chan.trace))
    /\ chan.rpc = "poll" => Alternates(chan.trace, Len(chan.trace))
    /\ (chan.last.op = "receive" /\ chan.last.blocking) =>
          LET t == chan.last.trace
              n == Len(t)
          IN  /\ n >= 1
              /\ Alternates(t, n - 1)
              /\ n % 2 = 1
              /\ t[n] \notin {"QRCVEMPTY", "wait"}
              /\ t[n] = "OK" =>
                     /\ chan.last.res = "Ok"
                     /\ chan.last.entry.frame \in ChanFrames
              /\ t[n] # "OK" => chan.last.res \in errors
              /\ chan.last.res # "WouldBlock"

C16_BlockingReceive == BlockingReceive({"Err"})

\* what holds: the call returns the error unless Error::new ends the process
C16_BlockingReceiveOrCrash == BlockingReceive({"Err", "crash"})

\* a blocking receive that waited twice, once on a stale signal, and got a frame
C16_WaitedTwice ==
    /\ chan.last.op = "receive"
    /\ chan.last.blocking
    /\ chan.last.res = "Ok"
    /\ chan.last.trace = <<"QRCVEMPTY", "wait", "QRCVEMPTY", "wait", "OK">>

---------------------------------------------------------------------------
(* C17: the non-blocking receive polls the native queue once and never     *)
(* waits; it returns WouldBlock iff the status is queue-empty, the frame   *)
(* iff the status is OK, and an error with the driver's text on every      *)
(* other status; frames come out in the order the hardware queued them.    *)

NonBlockingReceive(errors) ==
    (chan.last.op = "receive" /\ ~chan.last.blocking) =>
        /\ chan.last.trace = <<chan.last.status>>
        /\ chan.last.res = "WouldBlock" <=> chan.last.status = "QRCVEMPTY"
        /\ chan.last.res = "Ok" <=> chan.last.status = "OK"
        /\ chan.last.status \notin {"OK", "QRCVEMPTY"} => chan.last.res \in errors
        /\ chan.last.res = "Ok" =>
              /\ chan.last.entry.frame \in ChanFrames
              /\ chan.last.entry.serial > chan.prev
              /\ \A k \in 1..Len(chan.rxq) : chan.rxq[k].serial > chan.last.entry.serial

C17_NonBlockingReceive == NonBlockingReceive({"Err"})

C17_NonBlockingReceiveOrCrash == NonBlockingReceive({"Err", "crash"})

\* two frames received in the order they were queued
C17_TwoInOrder ==
    /\ chan.last.op = "receive"
    /\ ~chan.last.blocking
    /\ chan.last.res = "Ok"
    /\ chan.prev > 0

---------------------------------------------------------------------------
(* C18: transmit makes exactly one native write per call, returns success  *)
(* iff the write's status is OK and otherwise an error made from the       *)
(* status (never WouldBlock, never a panic, also on a full transmit        *)
(* queue); the frames reach the transmit queue in the order submitted.     *)

TransmitOnce(errors) ==
    /\ chan.last.op = "transmit" =>
          /\ chan.last.trace = <<"CAN_Write">>
          /\ chan.last.res = "Ok" <=> chan.last.status = "OK"
          /\ chan.last.status # "OK" => chan.last.res \in errors
          /\ chan.last.res # "WouldBlock"
    /\ chan.txq = chan.sent

C18_Transmit == TransmitOnce({"Err"})

C18_TransmitOrCrash == TransmitOnce({"Err", "crash"})

\* two frames were written in the order submitted
C18_TwoWritten ==
    /\ chan.last.op = "transmit"
    /\ chan.last.res = "Ok"
    /\ Len(chan.txq) = 2
    /\ chan.txq[1] # chan.txq[2]

---------------------------------------------------------------------------
(* C19: for every channel whose native initialize succeeded the native     *)
(* release is invoked exactly once on every exit path (teardown, a later   *)
(* step of init() failing, unwinding), never twice, and never for a        *)
(* channel whose initialize failed.                                        *)

C19_ReleaseOncePerInit ==
    /\ chan.releases <= chan.inits
    /\ chan.cpc \in {"dropped", "init_failed"} => chan.releases = chan.inits

\* what holds: the release is made once when the Interface is dropped, and
\* not at all when init() returns an error
C19_ReleaseOnlyOnDrop ==
    /\ chan.releases <= chan.inits
    /\ chan.cpc = "dropped" => (chan.inits = 1 /\ chan.releases = 1)
    /\ chan.cpc = "init_failed" => chan.releases = 0

\* init() failed after CAN_Initialize succeeded: the channel stays initialized
C19_LeakedChannel ==
    /\ chan.cpc = "init_failed"
    /\ chan.initialized
    /\ chan.inits = 1
    /\ chan.releases = 0

---------------------------------------------------------------------------
(* C20: init() returns an Interface only if the native initialize returned *)
(* OK, the status-frame parameter was accepted and the receive event was   *)
(* bound; if any of these steps fails, init() returns an error and no      *)
(* Interface exists.                                                       *)

AllAccepted ==
    /\ chan.last.status = "OK"
    /\ chan.last.params = {"PCAN_ALLOW_STATUS_FRAMES", "PCAN_RECEIVE_EVENT"}

C20_OpenOnlyIfAllAccepted ==
    chan.last.op = "init" =>
        /\ chan.last.res = "Ok" => (AllAccepted /\ chan.bound)
        /\ ~AllAccepted => (chan.last.res = "Err" /\ chan.cpc = "init_failed")

\* what holds: init() returns an Interface iff CAN_Initialize returned OK
\* and CreateEventA returned a handle
C20_OpenIffInitializedAndEventCreated ==
    chan.last.op = "init" =>
        /\ chan.last.res = "Ok" <=> chan.last.status = "OK"
        /\ chan.last.res = "Ok" <=> chan.cpc \in {"opened", "drain", "ready"}
        /\ chan.last.res = "Err" <=> chan.cpc = "init_failed"
        /\ chan.last.res = "Ok" => chan.initialized

\* the Interface exists and its event was never bound to the receive notification
C20_OpenUnbound ==
    /\ chan.cpc = "ready"
    /\ ~chan.bound
    /\ chan.rpc = "wait"

---------------------------------------------------------------------------
(* C21: frame construction returns an error and builds no frame for every  *)
(* data slice longer than 8 bytes and every identifier outside its tag's   *)
(* range, and succeeds for every identifier in range with 0..8 data bytes; *)
(* every constructed frame has at most 8 data bytes and an identifier in   *)
(* range.                                                                  *)

IdMax == IF fr.tag = PCAN_MESSAGE_STANDARD THEN STD_ID_MAX ELSE EXT_ID_MAX

ValidRequest == fr.id <= IdMax /\ Len(fr.bytes) <= 8

\* the request was answered by the constructor
Constructed == fr.step \in {"built", "invalid", "new_panicked"}

ConstructionRejects(crates) ==
    (Constructed /\ fr.crate \in crates) =>
        /\ ValidRequest => fr.step = "built"
        /\ ~ValidRequest => (fr.step = "invalid" /\ fr.frame = NoFrame)
        /\ fr.step = "built" => (fr.frame.LEN <= 8 /\ fr.frame.ID <= IdMax)

C21_ConstructionRejects == ConstructionRejects({"pcan-basic", "pcan"})

\* what holds: the constructors of the pcan-basic crate
C21_PcanBasicConstructionRejects == ConstructionRejects({"pcan-basic"})

\* the pcan crate built a standard frame with the identifier 0x800
C21_OutOfRangeBuilt ==
    /\ fr.crate = "pcan"
    /\ fr.step = "built"
    /\ fr.tag = PCAN_MESSAGE_STANDARD
    /\ fr.frame.ID = STD_ID_MAX + 1

---------------------------------------------------------------------------
(* C22: marking a frame remote with a declared length dlc fails with an    *)
(* invalid-frame error when dlc >= 8; otherwise the result has the remote  *)
(* flag set, the DLC field equal to dlc and an empty payload, and the      *)
(* identifier and the standard/extended flag are unchanged.                *)

C22_MarkRemote ==
    fr.step \in {"remote", "rtr_panicked", "rtr_invalid"} =>
        /\ fr.dlc >= 8 => fr.step = "rtr_invalid"
        /\ fr.dlc < 8 =>
              /\ fr.step = "remote"
              /\ is_remote_frame(fr.frame)
              /\ dlc(fr.frame) = fr.dlc
              /\ Len(data(fr.frame)) = 0
              /\ id(fr.frame) = id(fr.old)
              /\ is_extended(fr.frame) = is_extended(fr.old)

\* what holds for with_rtr: it panics for dlc >= 8, and for dlc < 8 data()
\* has dlc bytes, the first dlc bytes of the buffer the frame had before
C22_WithRtrKeepsTheBuffer ==
    (fr.crate = "pcan-basic" /\ fr.step \in {"remote", "rtr_panicked"}) =>
        /\ fr.dlc >= 8 <=> fr.step = "rtr_panicked"
        /\ fr.step = "remote" =>
              /\ is_remote_frame(fr.frame)
              /\ dlc(fr.frame) = fr.dlc
              /\ data(fr.frame) = SubSeq(fr.old.DATA, 1, fr.dlc)
              /\ id(fr.frame) = id(fr.old)
              /\ is_extended(fr.frame) = is_extended(fr.old)

\* a remote frame whose data() still has the 5 bytes it was built with
C22_RemoteWithPayload ==
    /\ fr.crate = "pcan-basic"
    /\ fr.step = "remote"
    /\ fr.dlc = 5
    /\ Len(fr.bytes) = 5
    /\ data(fr.frame) = fr.bytes
    /\ fr.bytes[1] = 171

---------------------------------------------------------------------------
(* C25: round trip.  For every standard identifier in 0..0x7FF, every      *)
(* extended identifier in 0..0x1FFFFFFF and every data slice of 0..8       *)
(* bytes, the constructed frame reads back the identifier, the data bytes  *)
(* with their length, the same standard/extended tag, and is_remote_frame  *)
(* false.                                                                  *)

C25_RoundTrip ==
    (Constructed /\ ValidRequest) =>
        /\ fr.step = "built"
        /\ id(fr.frame) = fr.id
        /\ data(fr.frame) = fr.bytes
        /\ Len(data(fr.frame)) = Len(fr.bytes)
        /\ is_extended(fr.frame) <=> fr.tag = PCAN_MESSAGE_EXTENDED
        /\ ~is_remote_frame(fr.frame)

\* the largest extended identifier with 3 data bytes
C25_Witness ==
    /\ fr.step = "built"
    /\ fr.crate = "pcan-basic"
    /\ fr.tag = PCAN_MESSAGE_EXTENDED
    /\ fr.id = EXT_ID_MAX
    /\ fr.bytes = <<171, 208, 245>>
    /\ id(fr.frame) = EXT_ID_MAX
    /\ data(fr.frame) = <<171, 208, 245>>

---------------------------------------------------------------------------
(* C23: go(address) transmits exactly one frame, on 0x21, whose payload is *)
(* the 4 bytes of the address, most significant first; it then receives    *)
(* exactly one frame and succeeds iff that frame is a valid                *)
(* acknowledgement on 0x21.                                                *)

GoCalls == {k \in Positions : log[k].at = "go_send"}

GoReceives == {k \in Positions : log[k].at = "go_ack"}

C23_Go ==
    /\ Cardinality(GoCalls) <= 1
    /\ Cardinality(GoReceives) <= 1
    /\ \A k \in GoCalls :
          /\ log[k].ev \in {"tx", "txerr"}
          /\ log[k].frame.ID = 33
          /\ log[k].frame.MSGTYPE = PCAN_MESSAGE_STANDARD
          /\ log[k].frame.LEN = 4
          /\ \A b \in 1..4 : log[k].frame.DATA[b] \in 0..255
          /\ 256 * log[k].frame.DATA[1] + log[k].frame.DATA[2] = startAddr.hi
          /\ 256 * log[k].frame.DATA[3] + log[k].frame.DATA[4] = startAddr.lo
          /\ log[k].ev = "txerr" => (k = Len(log) /\ pc = "failed")
          /\ (log[k].ev = "tx" /\ pc # "go_ack") => k + 1 \in GoReceives
    /\ \A k \in GoReceives :
          /\ k = Len(log)
          /\ k - 1 \in GoCalls
          /\ log[k - 1].ev = "tx"
          /\ log[k].ev \in {"rx", "rxerr"}
          /\ pc = "done" <=> (log[k].ev = "rx" /\ log[k].frame.ID = 33
                               /\ data(log[k].frame) = <<ACK>>)
          /\ pc # "done" => pc = "failed"
    /\ pc = "done" => GoReceives # {}

\* go(0xFFFF_FF00) succeeded
C23_Witness ==
    /\ pc = "done"
    /\ startAddr = U32(65535, 65280)
    /\ \E k \in GoCalls : data(log[k].frame) = <<255, 255, 255, 0>>

---------------------------------------------------------------------------
(* C24: write() leaves its loop the first time a read yields zero bytes    *)
(* and returns success with no further frame sent or received; on an       *)
(* empty input it sends no frame and awaits no acknowledgement; on a       *)
(* finite input write() ends after finitely many blocks.                   *)

WritePositions ==
    {"write_read", "write_hdr_send", "write_hdr_ack", "write_data_send",
     "write_data_ack", "write_blk_ack"}

WriteCalls == {k \in Positions : log[k].at \in WritePositions}

C24_WriteTerminates ==
    /\ \A j \in 1..Len(blocks) : blocks[j] \in 1..BOOTLOADER_BLOCK_LEN
    /\ Sum(blocks) <= imgLen
    /\ Len(blocks) <= imgLen
    /\ pc \in WritePositions => ENABLED Next
    /\ WriteReturned =>
          /\ Sum(blocks) = imgLen
          /\ \A j \in 1..Len(blocks) : Complete(j)
          /\ \A k \in WriteCalls :
                /\ ~FailureAt(k)
                /\ k < Len(log) => log[k + 1].at \in WritePositions \cup {"go_send"}
          /\ \A k \in Positions :
                (k > 1 /\ log[k].at = "go_send" /\ log[k - 1].at \in WritePositions) =>
                    (log[k - 1].at = "write_blk_ack" /\ log[k - 1].blk = Len(blocks))
          /\ imgLen = 0 => (blocks = <<>> /\ WriteCalls = {})

\* write() of 300 bytes returned after three blocks
C24_Witness ==
    /\ pc = "go_send"
    /\ imgLen = 300
    /\ Len(blocks) = 3

\* write() of the empty stream returned: five frames so far, none of write()
C24_EmptyInput ==
    /\ pc = "go_send"
    /\ imgLen = 0
    /\ Len(log) = 5
    /\ WriteCalls = {}

---------------------------------------------------------------------------
(* C26: no lost wakeup in the blocking receive.  A frame the hardware      *)
(* queued, with the receive event signalled on its arrival, before the     *)
(* poll, between the empty poll and the wait, or during the wait, makes    *)
(* the call return: never does the thread wait on an unsignalled event     *)
(* with a frame queued, and the call in progress ends with a frame unless  *)
(* the native read reports an error.  A stale signal costs the call at     *)
(* most one extra poll of an empty queue.                                  *)

Count(seq, x) == Cardinality({k \in 1..Len(seq) : seq[k] = x})

\* a blocking receive is inside its loop of poll and wait
BlockingCallInProgress == chan.cpc = "ready" /\ chan.rpc \in {"wait", "poll"}

\* the thread waits, a frame is queued, and nothing will wake the thread
LostWakeup ==
    /\ chan.cpc = "ready"
    /\ chan.rpc = "wait"
    /\ chan.bound
    /\ chan.rxq # <<>>
    /\ ~chan.event

\* the polls and waits of one call alternate, and at most two polls found
\* the queue empty
TraceOfOneCall(tr) ==
    /\ \A k \in 1..Len(tr) : (tr[k] = "wait") <=> (k % 2 = 0)
    /\ Count(tr, "QRCVEMPTY") <= 2
    /\ \A k \in 1..Len(tr) :
          (tr[k] = "QRCVEMPTY" /\ k > 1) => k = 3

ReceiveEnded ==
    /\ chan.rpc = "idle"
    /\ chan.last.op = "receive"
    /\ chan.last.blocking
    /\ \/ chan.last.res = "Ok" /\ chan.last.entry # NoEntry
       \/ chan.last.status \notin {"OK", "QRCVEMPTY"}

C26_Waiting ==
    /\ chan.cpc = "ready"
    /\ chan.rpc = "wait"
    /\ chan.bound
    /\ ~chan.event
    /\ chan.trace = <<"QRCVEMPTY", "wait", "QRCVEMPTY">>

---------------------------------------------------------------------------
(* C27: split() terminates for every behaviour of the native read: the     *)
(* drain loop ends after finitely many reads once the queued frames are    *)
(* consumed, and also when the native read reports a status other than OK  *)
(* or queue-empty, a persistent one included.                              *)

C27_SplitTerminates == (chan.cpc = "drain") ~> (chan.cpc # "drain")

\* the loop ends unless the native read reports an error at every call
C27_SplitTerminatesUnlessBusOff ==
    (chan.cpc = "drain") ~> (chan.cpc # "drain" \/ chan.fault)

\* split() read the bus-off status twice and is still in its loop
C27_PollingOnBusOff ==
    /\ chan.cpc = "drain"
    /\ chan.fault
    /\ ~chan.tick
    /\ chan.rxq # <<>>

====
